---- MODULE Spec2Model ----
(***************************************************************************)
(* The shopping cart of js/cart.js: a module-scoped list of line items     *)
(* mirrored to localStorage under one key, a slide-out drawer that is      *)
(* re-rendered after every change, and the PayPal Buttons checkout.        *)
(*                                                                         *)
(* Strings are sequences of one-character strings, so that generateId's    *)
(* lower-casing and slugging are computed and not assumed.  Money is in    *)
(* thousandths of a dollar (35.00 is 35000).                               *)
(***************************************************************************)
EXTENDS Integers, Sequences, FiniteSets, TLC

VARIABLES
    cart,            \* cart.js:20   the in-memory list of line items
    cartIsArray,     \* whether cart holds an array at all (it holds what loadCart gave)
    storage,         \* localStorage's entry under STORAGE_KEY
    storageAvailable,\* whether localStorage can be accessed at all in this browser
    quotaLeft,       \* how many more setItem calls fail for lack of quota
    sdkPresent,      \* whether the page has loaded the PayPal SDK (typeof paypal)
    badge,           \* cart.js:113  the nav badge: injected?, text, hidden
    drawer,          \* cart.js:148  "none" (null), "hidden" or "open"
    rendered,        \* the line items shown in drawerBody
    footer,          \* the drawerFooter: subtotal shown and what the PayPal container holds
    toasts,          \* the notices raised by the handler that ran last
    thrown,          \* whether the handler that ran last ended in an uncaught exception
    checkout,        \* the PayPal Buttons flow: "idle", "created" or "capturing"
    order,           \* the order createOrder handed to the SDK
    lastOp,          \* the handler that ran last, with its arguments
    search,          \* the search overlay: entries, loaded, overlay, input, results
    lightbox,        \* the shop's lightbox: hidden, currentProductList, currentProductIndex
    theme,           \* the theme script: data-theme, the saved preference, the toggle
    loader,          \* per fetching component: its anchor, its fetch, what it shows
    navbar,          \* the navigation script: its anchors, the menu, the nav border
    shortcuts,       \* the keyboard shortcuts script: its help overlay
    tab,             \* a second page of the site open on the same localStorage
    backdrop,        \* the backgrounds script: theme, caches, fetches, what the page shows
    worker,          \* the service worker: cache, network, the answer to the last fetch
    overflow         \* document.body.style.overflow: "hidden" locks the page's scroll

cartVars == <<cart, cartIsArray, storage, storageAvailable, quotaLeft, sdkPresent, badge, drawer,
              rendered, footer, toasts, thrown, checkout, order, lastOp>>

\* the state of the site's other components
pageVars == <<shortcuts, tab, backdrop, worker>>

siteVars == <<search, lightbox, theme, loader, navbar, pageVars>>

vars == <<cartVars, siteVars, overflow>>

(***************************************************************************)
(* Bounds of the model.                                                    *)
(***************************************************************************)
MaxLines == 2          \* lines a cart holds at most
MaxQty == 2            \* quantity a line reaches at most
MaxQuotaFailures == 1  \* setItem calls that fail for lack of quota
MaxEntries == 3        \* entries the search index holds at most
MaxItems == 3          \* items a filtered product or gallery list holds at most

(***************************************************************************)
(* Strings.                                                                *)
(***************************************************************************)
Lowers == {"a", "b", "c", "d", "e", "f", "g", "h", "i", "j", "k", "l", "m",
           "n", "o", "p", "q", "r", "s", "t", "u", "v", "w", "x", "y", "z"}
Digits == {"0", "1", "2", "3", "4", "5", "6", "7", "8", "9"}

\* String.prototype.toLowerCase, one character
LowerChar(ch) ==
    CASE ch = "A" -> "a" [] ch = "B" -> "b" [] ch = "C" -> "c" [] ch = "D" -> "d"
      [] ch = "E" -> "e" [] ch = "F" -> "f" [] ch = "G" -> "g" [] ch = "H" -> "h"
      [] ch = "I" -> "i" [] ch = "J" -> "j" [] ch = "K" -> "k" [] ch = "L" -> "l"
      [] ch = "M" -> "m" [] ch = "N" -> "n" [] ch = "O" -> "o" [] ch = "P" -> "p"
      [] ch = "Q" -> "q" [] ch = "R" -> "r" [] ch = "S" -> "s" [] ch = "T" -> "t"
      [] ch = "U" -> "u" [] ch = "V" -> "v" [] ch = "W" -> "w" [] ch = "X" -> "x"
      [] ch = "Y" -> "y" [] ch = "Z" -> "z" [] OTHER -> ch

toLowerCase(s) == [i \in 1..Len(s) |-> LowerChar(s[i])]

\* s.replace(/[^a-z0-9]+/g, '-') from position i on; inRun: the previous
\* character was already part of the run being replaced
RECURSIVE SlugFrom(_, _, _)
SlugFrom(s, i, inRun) ==
    IF i > Len(s) THEN <<>>
    ELSE IF s[i] \in Lowers \cup Digits THEN <<s[i]>> \o SlugFrom(s, i + 1, FALSE)
    ELSE IF inRun THEN SlugFrom(s, i + 1, TRUE)
    ELSE <<"-">> \o SlugFrom(s, i + 1, TRUE)

Slug(s) == SlugFrom(toLowerCase(s), 1, FALSE)

\* cart.js:42  generateId(title, variant); an empty variant is falsy
generateId(title, variant) ==
    IF variant # <<>> THEN Slug(title) \o <<"-", "-">> \o Slug(variant)
    ELSE Slug(title)

\* cart.js:60  the title a new line shows ("~" stands for the em dash)
LineTitle(title, variant) ==
    IF variant # <<>> THEN title \o <<" ", "~", " ">> \o variant ELSE title

(***************************************************************************)
(* The catalogue (assets/shop.json) and the arguments of SiteCart.add.     *)
(* priceIsNumber is FALSE for a price parseFloat cannot read ("$3", or no  *)
(* price); hasStock is FALSE for a product that declares no stock.  The    *)
(* mug is the last one in stock, the sticker is sold out.                  *)
(***************************************************************************)
Mug == [title |-> <<"M", "u", "g">>, priceIsNumber |-> TRUE, price |-> 12500,
        image |-> "mug.jpg", hasStock |-> TRUE, stock |-> 1, fulfillment |-> ""]
Tee == [title |-> <<"T", "e", "e">>, priceIsNumber |-> TRUE, price |-> 20000,
        image |-> "", hasStock |-> FALSE, stock |-> 0, fulfillment |-> "printful"]
Sticker == [title |-> <<"W", "V", " ", "1">>, priceIsNumber |-> TRUE, price |-> 3000,
            image |-> "wv.png", hasStock |-> TRUE, stock |-> 0, fulfillment |-> ""]
NoProduct == [title |-> <<>>, priceIsNumber |-> FALSE, price |-> 0,
              image |-> "", hasStock |-> FALSE, stock |-> 0, fulfillment |-> ""]

\* the tee as a later fetch of the catalogue prices it, at $20.004
TeeRepriced == [Tee EXCEPT !.price = 20004]

\* the tee as a catalogue lists it in capitals, at $25
TeeCaps == [Tee EXCEPT !.title = <<"T", "E", "E">>, !.price = 25000]

\* shop.js:148  soldOut: typeof item.stock === 'number' && item.stock <= 0,
\* for which the card's button is rendered disabled
SoldOut(p) == p.hasStock /\ p.stock <= 0

\* the calls of SiteCart.add: the tee comes plain or in size S
AddCalls == {<<Mug, <<>>>>, <<Tee, <<>>>>, <<Tee, <<"S">>>>, <<Sticker, <<>>>>}

\* the pages of the site: the shop page loads the PayPal SDK, and a page may
\* come without the .nav-links list the cart icon is injected into
Pages == {[nav |-> TRUE, sdk |-> TRUE], [nav |-> TRUE, sdk |-> FALSE],
          [nav |-> FALSE, sdk |-> FALSE]}

\* an id no line ever has
NoSuchId == <<"x">>

(***************************************************************************)
(* Persistence.  A stored value is absent (getItem gives null), text that  *)
(* JSON.parse rejects, or the JSON text of a list of line items.           *)
(***************************************************************************)
Absent == [kind |-> "absent", lines |-> <<>>]
Corrupt == [kind |-> "corrupt", lines |-> <<>>]
\* text that parses as JSON to a truthy value that is no array: a number other
\* than 0, or an object
Other == [kind |-> "other", lines |-> <<>>]
\* JSON.stringify of a list of line items: strings and finite numbers, which
\* JSON.parse gives back unchanged
JSONstringify(c) == [kind |-> "json", lines |-> c]

\* loadCart without its try/catch
LoadCartNoCatch(st, available) ==
    IF ~available \/ st.kind = "corrupt"
    THEN [cart |-> <<>>, threw |-> TRUE, isArray |-> TRUE]
    ELSE IF st.kind = "absent" THEN [cart |-> <<>>, threw |-> FALSE, isArray |-> TRUE]
    ELSE IF st.kind = "other" THEN [cart |-> <<>>, threw |-> FALSE, isArray |-> FALSE]
    ELSE [cart |-> st.lines, threw |-> FALSE, isArray |-> TRUE]

\* cart.js:25  loadCart: getItem throws when storage is unavailable, JSON.parse
\* throws on corrupt text and gives null for an absent entry
LoadCart(st, available) ==
    IF ~available THEN [cart |-> <<>>, threw |-> FALSE, isArray |-> TRUE]
    ELSE IF st.kind = "corrupt" THEN [cart |-> <<>>, threw |-> FALSE, isArray |-> TRUE]
    ELSE IF st.kind = "absent" THEN [cart |-> <<>>, threw |-> FALSE, isArray |-> TRUE]
    ELSE IF st.kind = "other" THEN [cart |-> <<>>, threw |-> FALSE, isArray |-> FALSE]
    ELSE [cart |-> st.lines, threw |-> FALSE, isArray |-> TRUE]

\* saveCart that never reaches setItem
SaveCartStale(c, st, ok) == [storage |-> st, threw |-> FALSE]

\* saveCart without its try/catch
SaveCartNoCatch(c, st, ok) ==
    [storage |-> IF ok THEN JSONstringify(c) ELSE st, threw |-> ~ok]

\* cart.js:33  saveCart: setItem throws when ok is FALSE, and the catch is empty
SaveCart(c, st, ok) ==
    [storage |-> IF ok THEN JSONstringify(c) ELSE st, threw |-> FALSE]

(***************************************************************************)
(* Cart operations on the list.                                            *)
(***************************************************************************)
\* Array.prototype.find by id: the index of the first line with that id, or 0
RECURSIVE FindFrom(_, _, _)
FindFrom(c, id, i) ==
    IF i > Len(c) THEN 0
    ELSE IF c[i].id = id THEN i
    ELSE FindFrom(c, id, i + 1)

Find(c, id) == FindFrom(c, id, 1)

IdsOf(c) == {c[i].id : i \in 1..Len(c)}

\* cart.js:61  parseFloat(product.price) || 0
ParsePrice(p) == IF p.priceIsNumber THEN p.price ELSE 0

\* cart.js:58  the line pushed for a product not yet in the cart
NewLine(p, variant) ==
    [id |-> generateId(p.title, variant),
     title |-> LineTitle(p.title, variant),
     price |-> ParsePrice(p),
     image |-> p.image,
     quantity |-> 1,
     variant |-> variant,
     fulfillment |-> IF p.fulfillment # "" THEN p.fulfillment ELSE "handmade"]

\* cart.js:52  product.stock && existing.quantity >= product.stock
StockReached(p, line) ==
    p.hasStock /\ p.stock # 0 /\ line.quantity >= p.stock

\* addItem that takes the catalogue's price for a line it already has
AddRepricing(c, p, variant) ==
    LET i == Find(c, generateId(p.title, variant))
    IN  IF i # 0 THEN [c EXCEPT ![i].quantity = @ + 1, ![i].price = ParsePrice(p)]
        ELSE Append(c, NewLine(p, variant))

\* addItem that pushes a line without looking for an existing one
AddAlwaysPush(c, p, variant) == Append(c, NewLine(p, variant))

\* cart.js:56  and cart.js:58  the list after an add that is not rejected
AddToCart(c, p, variant) ==
    LET i == Find(c, generateId(p.title, variant))
    IN  IF i # 0 THEN [c EXCEPT ![i].quantity = @ + 1]
        ELSE Append(c, NewLine(p, variant))

\* removeItem that drops the first line whatever its id
RemoveFirstLine(c, id) == IF c = <<>> THEN c ELSE Tail(c)

\* cart.js:76  cart.filter(c => c.id !== id)
RemoveFromCart(c, id) == SelectSeq(c, LAMBDA l : l.id # id)

\* updateQuantity without Math.max
NoClamp(q, delta) == q + delta

\* cart.js:85  Math.max(1, item.quantity + delta)
ClampQuantity(q, delta) == IF q + delta > 1 THEN q + delta ELSE 1

\* cart.js:82  the list after updateQuantity
SetQuantity(c, id, delta) ==
    LET i == Find(c, id)
    IN  IF i = 0 THEN c
        ELSE [c EXCEPT ![i].quantity = ClampQuantity(@, delta)]

\* clearCart that drops one line only
DropFirstLine(c) == IF c = <<>> THEN c ELSE Tail(c)

\* cart.js:92  cart = []
EmptyCart(c) == <<>>

\* cart.js:98  cartTotal: reduce from the left, starting at 0
RECURSIVE TotalFrom(_, _, _)
TotalFrom(c, i, sum) ==
    IF i > Len(c) THEN sum
    ELSE TotalFrom(c, i + 1, sum + c[i].price * c[i].quantity)

\* cartTotal that leaves the quantity out
RECURSIVE PricesFrom(_, _, _)
PricesFrom(c, i, sum) ==
    IF i > Len(c) THEN sum
    ELSE PricesFrom(c, i + 1, sum + c[i].price)

TotalOfPrices(c) == PricesFrom(c, 1, 0)

cartTotal(c) == TotalFrom(c, 1, 0)

\* cart.js:104  cartCount
RECURSIVE CountFrom(_, _, _)
CountFrom(c, i, sum) ==
    IF i > Len(c) THEN sum
    ELSE CountFrom(c, i + 1, sum + c[i].quantity)

cartCount(c) == CountFrom(c, 1, 0)

(***************************************************************************)
(* The page: badge, drawer, notices.                                       *)
(***************************************************************************)
NoBadge == [injected |-> FALSE, text |-> 0, hidden |-> TRUE]

\* cart.js:138  updateBadge
UpdateBadge(b, c) ==
    IF ~b.injected THEN b
    ELSE [injected |-> TRUE, text |-> cartCount(c), hidden |-> cartCount(c) = 0]

\* cart.js:115  injectCartIcon, on a page with or without .nav-links
InjectCartIcon(nav, c) ==
    IF ~nav THEN NoBadge
    ELSE UpdateBadge([injected |-> TRUE, text |-> 0, hidden |-> TRUE], c)

\* cart.js:122  the badge as injectCartIcon's markup has it: "0", hidden
ZeroBadge == [injected |-> TRUE, text |-> 0, hidden |-> TRUE]

\* cart.js:135  injectCartIcon ends in updateBadge(), whose cartCount() calls
\* cart.reduce: a TypeError when the page has .nav-links and cart is no array
BadgeThrows(nav, isArray) == nav /\ ~isArray

NoFooter == [subtotal |-> 0, pay |-> "none"]

\* cart.js:206  renderDrawer: what drawerBody shows afterwards
RenderBody(d, c, shown) == IF d = "none" THEN shown ELSE c

\* cart.js:258  renderDrawer and cart.js:281 renderPayPalButtons: the footer
RenderFooter(d, c, sdk, f) ==
    IF d = "none" THEN f
    ELSE IF c = <<>> THEN NoFooter
    ELSE [subtotal |-> cartTotal(c), pay |-> IF sdk THEN "buttons" ELSE "link"]

\* Number.prototype.toFixed(2): thousandths of a dollar rounded to cents
toFixed2(amount) == (amount + 5) \div 10

NoOrder == [items |-> <<>>, total |-> 0]

\* cart.js:300  createOrder: one item per line, and the total, in cents;
\* String(quantity) is the decimal numeral of the quantity
OrderOf(c) ==
    [items |-> [i \in 1..Len(c) |->
                   [name |-> c[i].title,
                    unit_amount |-> toFixed2(c[i].price),
                    quantity |-> c[i].quantity]],
     total |-> toFixed2(cartTotal(c))]

\* cart.js:348  showToast(message, type); type "" is a call without a type
Toast(message, type) == [message |-> message, type |-> type]

\* lastOp: the handler and its arguments; write is what became of its setItem
\* call ("none" when it made none, "ok", or "failed" when setItem threw);
\* named is whether the capture details carry the payer's name
Op(name) ==
    [name |-> name, product |-> NoProduct, variant |-> <<>>, id |-> <<>>,
     delta |-> 0, write |-> "none", named |-> FALSE]

(***************************************************************************)
(* The tail every mutator shares: saveCart, updateBadge, renderDrawer and  *)
(* the notices.  quota is whether setItem finds room; the write succeeds   *)
(* when storage is available and has room.                                 *)
(***************************************************************************)
WriteOk(quota) == storageAvailable /\ quota

Commit(op, c, quota, notices) ==
    LET s == SaveCart(c, storage, WriteOk(quota))
    IN  /\ lastOp' = [op EXCEPT !.write = IF WriteOk(quota) THEN "ok" ELSE "failed"]
        /\ (storageAvailable /\ ~quota) => quotaLeft > 0
        /\ quotaLeft' = IF storageAvailable /\ ~quota THEN quotaLeft - 1 ELSE quotaLeft
        /\ cart' = c
        /\ cartIsArray' = TRUE
        /\ storage' = s.storage
        /\ thrown' = s.threw
        /\ badge' = IF s.threw THEN badge ELSE UpdateBadge(badge, c)
        /\ rendered' = IF s.threw THEN rendered ELSE RenderBody(drawer, c, rendered)
        /\ footer' = IF s.threw THEN footer
                     ELSE RenderFooter(drawer, c, sdkPresent, footer)
        /\ toasts' = IF s.threw THEN <<>> ELSE notices
        /\ UNCHANGED <<storageAvailable, sdkPresent, siteVars>>

\* a handler that returns before it changes anything
Return(op, notices) ==
    /\ lastOp' = op
    /\ toasts' = notices
    /\ thrown' = FALSE
    /\ UNCHANGED <<cart, cartIsArray, storage, storageAvailable, quotaLeft,
                   sdkPresent, badge, rendered, footer, siteVars>>

\* a handler that ends in a TypeError before it changes anything: cart.find,
\* cart.filter and cart.reduce are not functions when cart is no array
Throw(op) ==
    /\ lastOp' = op
    /\ toasts' = <<>>
    /\ thrown' = TRUE
    /\ UNCHANGED <<cart, cartIsArray, storage, storageAvailable, quotaLeft,
                   sdkPresent, badge, rendered, footer, siteVars>>

(***************************************************************************)
(* Operations.                                                             *)
(***************************************************************************)
\* cart.js:47  addItem(product, variant)
AddItem(p, variant, quota) ==
    LET i == Find(cart, generateId(p.title, variant))
        op == [Op("add") EXCEPT !.product = p, !.variant = variant]
    IN  /\ UNCHANGED <<drawer, overflow, checkout, order>>
        /\ IF ~cartIsArray
           THEN Throw(op)
           ELSE IF i # 0 /\ StockReached(p, cart[i])
           THEN Return(op, <<Toast("Only n in stock", "warning")>>)
           ELSE /\ i # 0 => cart[i].quantity < MaxQty
                /\ i = 0 => Len(cart) < MaxLines
                /\ Commit(op, AddToCart(cart, p, variant), quota,
                          <<Toast("Added to cart", "")>>)

\* cart.js:75  removeItem(id): SiteCart.remove, or a drawer line's remove button
RemoveItem(id, quota) ==
    /\ UNCHANGED <<drawer, overflow, checkout, order>>
    /\ IF ~cartIsArray
       THEN Throw([Op("remove") EXCEPT !.id = id])
       ELSE Commit([Op("remove") EXCEPT !.id = id], RemoveFromCart(cart, id), quota, <<>>)

\* cart.js:82  updateQuantity(id, delta), reached only through the plus and
\* minus buttons of a line the open drawer shows (cart.js:244)
UpdateQuantity(id, delta, quota) ==
    /\ drawer = "open"
    /\ Find(rendered, id) # 0
    /\ UNCHANGED <<drawer, overflow, checkout, order>>
    /\ LET op == [Op("updateQuantity") EXCEPT !.id = id, !.delta = delta]
       IN  IF Find(cart, id) = 0
           THEN Return(op, <<>>)
           ELSE /\ ClampQuantity(cart[Find(cart, id)].quantity, delta) <= MaxQty
                /\ Commit(op, SetQuantity(cart, id, delta), quota, <<>>)

\* cart.js:91  clearCart(): SiteCart.clear, or the confirmed Clear cart button
ClearCart(quota) ==
    /\ UNCHANGED <<drawer, overflow, checkout, order>>
    /\ Commit(Op("clear"), EmptyCart(cart), quota, <<>>)

\* cart.js:270  the Clear cart button with the confirm dialog turned down
DeclineClear ==
    /\ drawer = "open"
    /\ cart # <<>>
    /\ UNCHANGED <<drawer, overflow, checkout, order>>
    /\ Return(Op("declineClear"), <<>>)

\* cart.js:187  openDrawer(): SiteCart.open, or the nav icon with the drawer shut
OpenDrawer ==
    /\ drawer # "open"
    /\ lastOp' = Op("open")
    /\ drawer' = "open"
    /\ overflow' = "hidden"
    /\ rendered' = RenderBody("open", cart, rendered)
    /\ footer' = RenderFooter("open", cart, sdkPresent, footer)
    /\ toasts' = <<>>
    /\ thrown' = FALSE
    /\ UNCHANGED <<cart, cartIsArray, storage, storageAvailable, quotaLeft,
                   sdkPresent, badge, checkout, order, siteVars>>

\* cart.js:195  closeDrawer(): SiteCart.close, the backdrop, the close button,
\* Escape, or the nav icon with the drawer open
CloseDrawer ==
    /\ lastOp' = Op("close")
    /\ drawer' = IF drawer = "none" THEN "none" ELSE "hidden"
    /\ overflow' = IF drawer = "none" THEN overflow ELSE ""
    /\ toasts' = <<>>
    /\ thrown' = FALSE
    /\ UNCHANGED <<cart, cartIsArray, storage, storageAvailable, quotaLeft,
                   sdkPresent, badge, rendered, footer, checkout, order, siteVars>>

\* cart.js:20 and cart.js:397  a page of the site loads: the script runs
\* loadCart and, on DOMContentLoaded, injectCartIcon
PageLoad(page) ==
    LET l == LoadCart(storage, storageAvailable)
    IN  /\ lastOp' = Op("load")
        /\ cart' = l.cart
        /\ cartIsArray' = l.isArray
        /\ thrown' = (l.threw \/ BadgeThrows(page.nav, l.isArray))
        /\ sdkPresent' = page.sdk
        /\ badge' = IF l.threw THEN NoBadge
                    ELSE IF BadgeThrows(page.nav, l.isArray) THEN ZeroBadge
                    ELSE InjectCartIcon(page.nav, l.cart)
        /\ drawer' = "none"
        /\ overflow' = ""
        /\ rendered' = <<>>
        /\ footer' = NoFooter
        /\ toasts' = <<>>
        /\ checkout' = "idle"
        /\ order' = NoOrder
        /\ UNCHANGED <<storage, storageAvailable, quotaLeft, siteVars>>

(***************************************************************************)
(* Checkout.  The PayPal SDK calls createOrder when the shopper presses a  *)
(* button it rendered, onApprove when the shopper approves the payment,    *)
(* and onError when it fails; capture() settles some time after onApprove. *)
(***************************************************************************)
\* cart.js:300  createOrder, called for a press of the rendered PayPal button
CreateOrder ==
    /\ drawer = "open"
    /\ footer.pay = "buttons"
    /\ checkout = "idle"
    /\ checkout' = "created"
    /\ order' = OrderOf(cart)
    /\ lastOp' = Op("createOrder")
    /\ toasts' = <<>>
    /\ thrown' = FALSE
    /\ UNCHANGED <<cart, cartIsArray, storage, storageAvailable, quotaLeft,
                   sdkPresent, badge, drawer, rendered, footer, siteVars, overflow>>

\* cart.js:329  onApprove: actions.order.capture() is called and pending
OnApprove ==
    /\ checkout = "created"
    /\ checkout' = "capturing"
    /\ lastOp' = Op("onApprove")
    /\ toasts' = <<>>
    /\ thrown' = FALSE
    /\ UNCHANGED <<cart, cartIsArray, storage, storageAvailable, quotaLeft,
                   sdkPresent, badge, drawer, rendered, footer, order, siteVars,
                   overflow>>

\* onError that only logs to the console
NoNotices == <<>>

\* cart.js:336  onError
OnErrorNotices == <<Toast("Payment error - please try again", "error")>>

\* cart.js:330  the callback of capture().then: the notice reads
\* details.payer.name.given_name, which throws when the details carry no
\* payer name; the rejection is the SDK's to report through onError.
\* Otherwise clearCart() and closeDrawer() follow.
CaptureResolved(named, quota) ==
    /\ checkout = "capturing"
    /\ checkout' = "idle"
    /\ order' = NoOrder
    /\ IF ~named
       THEN /\ Return([Op("captureResolved") EXCEPT !.named = named], OnErrorNotices)
            /\ UNCHANGED <<drawer, overflow>>
       ELSE /\ Commit([Op("captureResolved") EXCEPT !.named = named],
                      EmptyCart(cart), quota,
                      <<Toast("Payment complete - thank you", "success")>>)
            /\ drawer' = IF SaveCart(EmptyCart(cart), storage, WriteOk(quota)).threw
                            \/ drawer = "none"
                         THEN drawer ELSE "hidden"
            /\ overflow' = IF SaveCart(EmptyCart(cart), storage, WriteOk(quota)).threw
                              \/ drawer = "none"
                           THEN overflow ELSE ""

\* cart.js:336  onError: the SDK reports a failure of the payment, of the
\* order's creation or of its capture
OnError ==
    /\ checkout \in {"created", "capturing"}
    /\ checkout' = "idle"
    /\ order' = NoOrder
    /\ UNCHANGED <<drawer, overflow>>
    /\ Return(Op("onError"), OnErrorNotices)

\* the shopper closes the PayPal window; the Buttons are given no onCancel
CancelCheckout ==
    /\ checkout = "created"
    /\ checkout' = "idle"
    /\ order' = NoOrder
    /\ UNCHANGED <<drawer, overflow>>
    /\ Return(Op("cancel"), <<>>)

(***************************************************************************)
(* The search overlay (the search script of the site).  An index entry has *)
(* a title, a category, a list of tags and a preview; the result list is   *)
(* kept as the positions of the entries in the index, so that two equal    *)
(* entries stay apart.                                                     *)
(***************************************************************************)
PostWork == [title |-> <<"A", "b">>, category |-> <<"b">>, tags |-> <<>>,
             preview |-> <<"c">>]
PostMusic == [title |-> <<"b">>, category |-> <<"a">>,
              tags |-> << <<"a">>, <<"b">> >>, preview |-> <<>>]
PostShop == [title |-> <<"c">>, category |-> <<"c">>, tags |-> << <<"a", "b">> >>,
             preview |-> <<"b", "a">>]
PostAbout == [title |-> <<>>, category |-> <<"a">>, tags |-> << <<"b">> >>,
              preview |-> <<"a">>]
Posts == {PostWork, PostMusic, PostShop, PostAbout}

\* the indexes assets/search-index.json may hold
Indexes == UNION {[1..n -> Posts] : n \in 0..MaxEntries}

\* what the shopper types into the search input
Typed == {<<>>, <<" ">>, <<"a">>, <<"b">>, <<"c">>, <<"A", "B">>, <<"a", " ", "b">>,
          <<"b", " ">>}

\* String.prototype.trim
RECURSIVE trim(_)
trim(s) ==
    IF s = <<>> THEN s
    ELSE IF Head(s) = " " THEN trim(Tail(s))
    ELSE IF s[Len(s)] = " " THEN trim(SubSeq(s, 1, Len(s) - 1))
    ELSE s

\* String.prototype.includes
includes(s, q) ==
    \E i \in 0..(Len(s) - Len(q)) : SubSeq(s, i + 1, i + Len(q)) = q

\* Array.prototype.join(' ')
RECURSIVE join(_)
join(tags) ==
    IF tags = <<>> THEN <<>>
    ELSE IF Len(tags) = 1 THEN tags[1]
    ELSE tags[1] \o <<" ">> \o join(Tail(tags))

\* filter that scores a title match like a category match
ScoreFlat(e, q) ==
    (IF includes(toLowerCase(e.title), q) THEN 5 ELSE 0)
    + (IF includes(toLowerCase(e.category), q) THEN 5 ELSE 0)
    + (IF includes(toLowerCase(join(e.tags)), q) THEN 3 ELSE 0)
    + (IF includes(toLowerCase(e.preview), q) THEN 1 ELSE 0)

\* filter: the score of one entry for the lower-cased query q
Score(e, q) ==
    (IF includes(toLowerCase(e.title), q) THEN 10 ELSE 0)
    + (IF includes(toLowerCase(e.category), q) THEN 5 ELSE 0)
    + (IF includes(toLowerCase(join(e.tags)), q) THEN 3 ELSE 0)
    + (IF includes(toLowerCase(e.preview), q) THEN 1 ELSE 0)

\* one step of the stable sort by b.score - a.score: s goes behind every
\* element that scores at least as much
RECURSIVE InsertByScore(_, _)
InsertByScore(sorted, s) ==
    IF sorted = <<>> THEN <<s>>
    ELSE IF Head(sorted).score >= s.score
         THEN <<Head(sorted)>> \o InsertByScore(Tail(sorted), s)
         ELSE <<s>> \o sorted

\* filter without its sort
NoSort(scored) == scored

\* Array.prototype.sort with the comparator b.score - a.score (stable)
RECURSIVE SortByScore(_)
SortByScore(scored) ==
    IF scored = <<>> THEN <<>>
    ELSE InsertByScore(SortByScore(SubSeq(scored, 1, Len(scored) - 1)),
                       scored[Len(scored)])

\* filter: .filter(s => s.score > 0)
Positive(scored) == SelectSeq(scored, LAMBDA s : s.score > 0)

\* the positions of all the entries: render(entries, '')
All(es) == [i \in 1..Len(es) |-> i]

\* render(list, query): the results element and the status line
Render(list, query) ==
    IF list = <<>>
    THEN [kind |-> "none", list |-> <<>>, count |-> 0, query |-> query]
    ELSE [kind |-> "list", list |-> list, count |-> Len(list), query |-> query]

\* filter(query): what the overlay shows afterwards
Filter(es, query) ==
    IF query = <<>> THEN Render(All(es), <<>>)
    ELSE LET q == toLowerCase(query)
             scored == [i \in 1..Len(es) |-> [entry |-> i, score |-> Score(es[i], q)]]
             sorted == SortByScore(Positive(scored))
         IN  Render([i \in 1..Len(sorted) |-> sorted[i].entry], query)

\* the results element as the overlay is created, and while it says
\* "Loading index..."
Blank == [kind |-> "blank", list |-> <<>>, count |-> 0, query |-> <<>>]
Loading(shown) == [shown EXCEPT !.kind = "loading", !.list = <<>>]

\* the overlay as the script creates it, with the fetch of the index started
SearchAtLoad ==
    [entries |-> <<>>, loaded |-> FALSE, hidden |-> TRUE, input |-> <<>>,
     shown |-> Blank, fetch |-> "pending", last |-> "load"]

\* openSearch(): Ctrl+K with the overlay hidden, or a click on the toggle
OpenSearch ==
    /\ search' = [search EXCEPT
                    !.hidden = FALSE,
                    !.input = <<>>,
                    !.shown = IF search.loaded THEN Render(All(search.entries), <<>>)
                              ELSE Loading(search.shown),
                    !.last = "open"]
    /\ overflow' = "hidden"
    /\ UNCHANGED <<cartVars, lightbox, theme, loader, navbar, pageVars>>

\* closeSearch(): Escape or Ctrl+K with the overlay open, or a click on it
CloseSearch ==
    /\ ~search.hidden
    /\ search' = [search EXCEPT !.hidden = TRUE, !.last = "close"]
    /\ overflow' = ""
    /\ UNCHANGED <<cartVars, lightbox, theme, loader, navbar, pageVars>>

\* the input event of the search input: filter(input.value.trim())
SearchInput(text) ==
    /\ ~search.hidden
    /\ search' = [search EXCEPT
                    !.input = text,
                    !.shown = Filter(search.entries, trim(text)),
                    !.last = "input"]
    /\ UNCHANGED <<cartVars, lightbox, theme, loader, navbar, pageVars, overflow>>

\* the index arrives: data is a list of entries, or JSON of another kind
IndexFetched(isArray, data) ==
    /\ search.fetch = "pending"
    /\ LET es == IF isArray THEN data ELSE <<>>
       IN  search' = [search EXCEPT
                        !.entries = es,
                        !.loaded = TRUE,
                        !.shown = IF ~search.hidden THEN Render(All(es), <<>>) ELSE @,
                        !.fetch = "done",
                        !.last = "fetched"]
    /\ UNCHANGED <<cartVars, lightbox, theme, loader, navbar, pageVars, overflow>>

\* the fetch fails, answers with an HTTP error, or its body is not JSON
IndexFetchFailed ==
    /\ search.fetch = "pending"
    /\ search' = [search EXCEPT !.loaded = TRUE, !.entries = <<>>,
                                !.fetch = "failed", !.last = "failed"]
    /\ UNCHANGED <<cartVars, lightbox, theme, loader, navbar, pageVars, overflow>>

(***************************************************************************)
(* The lightbox of the shop page (shop.js:46); the gallery's lightbox      *)
(* (openLightbox and its keydown handler) is the same code over gallery    *)
(* items.  An item is known by its title.                                  *)
(***************************************************************************)
Items == {"print", "mug", "tee"}

\* the filtered lists render() hands to the cards' click handlers
FilteredLists == UNION {[1..n -> Items] : n \in 1..MaxItems}

\* the JavaScript remainder a % n, which has the sign of a
JsRem(a, n) == IF a >= 0 THEN a % n ELSE 0 - ((0 - a) % n)

\* shop.js:67  (currentProductIndex + 1) % length
NextIndex(i, n) == JsRem(i + 1, n)

\* ArrowLeft without the "+ length"
PreviousNoWrap(i, n) == JsRem(i - 1, n)

\* shop.js:71  (currentProductIndex - 1 + length) % length
PreviousIndex(i, n) == JsRem(i - 1 + n, n)

\* shop.js:36  the lightbox as the script creates it
LightboxAtLoad ==
    [hidden |-> TRUE, list |-> <<>>, index |-> -1, shown |-> "", last |-> "load"]

\* shop.js:46  openProductLightbox(filtered[i], filtered, i), from the click
\* on the image of card i
OpenProductLightbox(list, i) ==
    /\ lightbox' = [hidden |-> FALSE, list |-> list, index |-> i,
                    shown |-> list[i + 1], last |-> "open"]
    /\ overflow' = "hidden"
    /\ UNCHANGED <<cartVars, search, theme, loader, navbar, pageVars>>

\* shop.js:55  closeProductLightbox: the close button, the backdrop, Escape
CloseProductLightbox ==
    /\ ~lightbox.hidden
    /\ lightbox' = [lightbox EXCEPT !.hidden = TRUE, !.last = "close"]
    /\ overflow' = ""
    /\ UNCHANGED <<cartVars, search, theme, loader, navbar, pageVars>>

\* shop.js:66  keydown ArrowRight with the lightbox open
KeyArrowRight ==
    /\ ~lightbox.hidden
    /\ Len(lightbox.list) # 0
    /\ LET i == NextIndex(lightbox.index, Len(lightbox.list))
       IN  lightbox' = [lightbox EXCEPT !.index = i, !.shown = lightbox.list[i + 1],
                                       !.last = "next"]
    /\ UNCHANGED <<cartVars, search, theme, loader, navbar, pageVars, overflow>>

\* shop.js:70  keydown ArrowLeft with the lightbox open; an index outside the
\* list shows undefined, and showProduct(undefined) throws
KeyArrowLeft ==
    /\ ~lightbox.hidden
    /\ Len(lightbox.list) # 0
    /\ LET i == PreviousIndex(lightbox.index, Len(lightbox.list))
       IN  lightbox' = [lightbox EXCEPT
                          !.index = i,
                          !.shown = IF i \in 0..(Len(lightbox.list) - 1)
                                    THEN lightbox.list[i + 1] ELSE @,
                          !.last = "previous"]
    /\ UNCHANGED <<cartVars, search, theme, loader, navbar, pageVars, overflow>>

(***************************************************************************)
(* The theme script.  saved is the entry under 'sullivan-theme' ("" when   *)
(* there is none); applied is what data-theme says ("dark" is the absence  *)
(* of the attribute); system is the prefers-color-scheme of the browser;   *)
(* listener is whether the page has registered window.onThemeChange;       *)
(* notified lists the themes the handler that ran last passed to it.       *)
(***************************************************************************)
Themes == {"light", "dark"}

\* getPreferred(): the saved theme, or what the system prefers
getPreferred(saved, system) == IF saved # "" THEN saved ELSE system

\* the other theme
Flip(current) == IF current = "light" THEN "dark" ELSE "light"

\* the script at its start and on DOMContentLoaded: apply(getPreferred()) and
\* the click handler on .theme-toggle, on a page with or without the button
ThemeAtLoad(saved, system, button, listener) ==
    [applied |-> getPreferred(saved, system), saved |-> saved, system |-> system,
     wired |-> button, listener |-> listener, notified |-> <<>>,
     thrown |-> FALSE, write |-> "none", last |-> "load"]

\* toggle: if (window.onThemeChange) window.onThemeChange(next)
Notify(listener, next) == IF listener THEN <<next>> ELSE <<>>

(***************************************************************************)
(* The backgrounds script, in its two variants: "api" asks NASA APOD for   *)
(* the dark image and Unsplash for the light one and caches what it gets   *)
(* (backgrounds.js:1), "local" takes the image and its metadata from       *)
(* /assets/backgrounds (backgrounds.js:190).  An image is known by the     *)
(* theme it belongs to.  cache is which themes have a fresh cache entry,   *)
(* fetches the API calls in flight (applies: the callback is              *)
(* applyForTheme's, not the prefetch's empty one), images the Image        *)
(* objects still loading, metas the metadata fetches in flight, image and  *)
(* credit what --bg-image and .bg-credit show, missed whether a fetch or   *)
(* an image load has failed or come without an image.                      *)
(***************************************************************************)
Variants == {"api", "local"}

\* backgrounds.js:7  getCurrentTheme(): data-theme, else the saved theme
getCurrentTheme(t) ==
    IF t.applied = "light" THEN "light"
    ELSE IF t.saved # "" THEN t.saved ELSE "dark"

\* a callback that applies whatever the theme is by now
ThemeAny(t, for) == TRUE

\* backgrounds.js:133 and 140  the guard of applyForTheme's callbacks
ThemeStill(t, for) == getCurrentTheme(t) = for

NoBackdropOp == [name |-> "load", theme |-> "dark", applies |-> FALSE,
                 hasImage |-> FALSE, late |-> FALSE]

\* backgrounds.js:125 and 257  applyForTheme(for)
ApplyForTheme(b, for) ==
    IF b.variant = "local"
    THEN [b EXCEPT !.images = @ \cup {for}, !.metas = @ \cup {for},
                   !.last = [NoBackdropOp EXCEPT !.name = "apply", !.theme = for]]
    ELSE IF b.cache[for]
    THEN [b EXCEPT !.images = @ \cup {for}, !.credit = for,
                   !.last = [NoBackdropOp EXCEPT !.name = "apply", !.theme = for]]
    ELSE [b EXCEPT !.fetches = @ \cup {[theme |-> for, applies |-> TRUE]},
                   !.last = [NoBackdropOp EXCEPT !.name = "apply", !.theme = for]]

\* backgrounds.js:170  the fetches on load for the themes that are not cached
Prefetch(b) ==
    IF b.variant = "local" THEN b
    ELSE [b EXCEPT !.fetches = @ \cup {[theme |-> for, applies |-> FALSE] :
                                          for \in {x \in Themes : ~b.cache[x]}}]

\* a page without the script
BackdropAbsent(variant, cached) ==
    [variant |-> variant, cache |-> cached, fetches |-> {}, images |-> {},
     metas |-> {}, image |-> "none", credit |-> "none", missed |-> FALSE,
     last |-> NoBackdropOp]

\* backgrounds.js:167 and 275  the script's start: applyForTheme of the
\* current theme, then the prefetch
BackdropAtLoad(variant, cached, current) ==
    [Prefetch(ApplyForTheme(BackdropAbsent(variant, cached), current))
        EXCEPT !.last = NoBackdropOp]

\* toggle(): a click on .theme-toggle; setItem throws when the write fails,
\* and nothing stands between it and the handler's caller; the last call is
\* window.onThemeChange(next), the backgrounds script's applyForTheme
ThemeToggle(writeOk) ==
    /\ theme.wired
    /\ LET next == Flip(theme.applied)
       IN  /\ theme' = IF writeOk
                       THEN [theme EXCEPT !.saved = next, !.applied = next,
                                          !.notified = Notify(theme.listener, next),
                                          !.thrown = FALSE, !.write = "ok",
                                          !.last = "toggle"]
                       ELSE [theme EXCEPT !.notified = <<>>, !.thrown = TRUE,
                                          !.write = "failed", !.last = "toggle"]
           /\ backdrop' = IF writeOk /\ theme.listener
                          THEN ApplyForTheme(backdrop, next) ELSE backdrop
    /\ UNCHANGED <<cartVars, search, lightbox, loader, navbar, shortcuts, tab,
                   worker, overflow>>

\* the change event of prefers-color-scheme: followed when nothing is saved
SystemThemeChange ==
    /\ LET system == Flip(theme.system)
       IN  theme' = [theme EXCEPT
                       !.system = system,
                       !.applied = IF theme.saved = "" THEN system ELSE @,
                       !.notified = <<>>, !.thrown = FALSE, !.write = "none",
                       !.last = "system"]
    /\ UNCHANGED <<cartVars, search, lightbox, loader, navbar, pageVars, overflow>>

\* another page of the site loads, with or without the toggle button and the
\* background script that registers window.onThemeChange
ThemePageLoad(button, listener) ==
    /\ theme' = ThemeAtLoad(theme.saved, theme.system, button, listener)
    /\ backdrop' = IF listener
                   THEN BackdropAtLoad(backdrop.variant, backdrop.cache,
                                       getCurrentTheme(theme'))
                   ELSE BackdropAbsent(backdrop.variant, backdrop.cache)
    /\ UNCHANGED <<cartVars, search, lightbox, loader, navbar, shortcuts, tab,
                   worker, overflow>>

\* backgrounds.js:78 and 101  a response of the API arrives, with or without
\* an image in it: saveToCache, then the callback
FetchArrived(f, hasImage) ==
    /\ f \in backdrop.fetches
    /\ LET applied == hasImage /\ f.applies /\ ThemeStill(theme, f.theme)
       IN  backdrop' = [backdrop EXCEPT
               !.fetches = @ \ {f},
               !.cache[f.theme] = IF hasImage THEN TRUE ELSE @,
               !.images = IF applied THEN @ \cup {f.theme} ELSE @,
               !.credit = IF applied THEN f.theme ELSE @,
               !.missed = IF hasImage THEN @ ELSE TRUE,
               !.last = [name |-> "fetched", theme |-> f.theme, applies |-> f.applies,
                         hasImage |-> hasImage,
                         late |-> getCurrentTheme(theme) # f.theme]]
    /\ UNCHANGED <<cartVars, search, lightbox, theme, loader, navbar, shortcuts,
                   tab, worker, overflow>>

\* backgrounds.js:95 and 115  the API call fails: fetchAPOD's catch is empty,
\* fetchUnsplash's saves its fallback image and hands it to the callback
FetchFailed(f) ==
    /\ f \in backdrop.fetches
    /\ LET fallback == f.theme = "light"
           applied == fallback /\ f.applies /\ ThemeStill(theme, f.theme)
       IN  backdrop' = [backdrop EXCEPT
               !.fetches = @ \ {f},
               !.cache[f.theme] = IF fallback THEN TRUE ELSE @,
               !.images = IF applied THEN @ \cup {f.theme} ELSE @,
               !.credit = IF applied THEN f.theme ELSE @,
               !.missed = IF fallback THEN @ ELSE TRUE,
               !.last = [name |-> "failed", theme |-> f.theme, applies |-> f.applies,
                         hasImage |-> fallback,
                         late |-> getCurrentTheme(theme) # f.theme]]
    /\ UNCHANGED <<cartVars, search, lightbox, theme, loader, navbar, shortcuts,
                   tab, worker, overflow>>

\* backgrounds.js:19 and 214  img.onload: --bg-image is set to the image
ImageLoaded(for) ==
    /\ for \in backdrop.images
    /\ backdrop' = [backdrop EXCEPT
                       !.images = @ \ {for},
                       !.image = for,
                       !.last = [NoBackdropOp EXCEPT !.name = "image", !.theme = for]]
    /\ UNCHANGED <<cartVars, search, lightbox, theme, loader, navbar, shortcuts,
                   tab, worker, overflow>>

\* backgrounds.js:22 and 215  img.onerror: nothing in the API variant, the
\* image's url all the same in the local one
ImageFailed(for) ==
    /\ for \in backdrop.images
    /\ backdrop' = [backdrop EXCEPT
                       !.images = @ \ {for},
                       !.image = IF backdrop.variant = "local" THEN for ELSE @,
                       !.missed = TRUE,
                       !.last = [NoBackdropOp EXCEPT !.name = "imageError", !.theme = for]]
    /\ UNCHANGED <<cartVars, search, lightbox, theme, loader, navbar, shortcuts,
                   tab, worker, overflow>>

\* backgrounds.js:242  loadMetadata's callback: the credit link is set from
\* the metadata, or left alone when the fetch failed (meta is null)
MetadataArrived(for, ok) ==
    /\ for \in backdrop.metas
    /\ backdrop' = [backdrop EXCEPT
                       !.metas = @ \ {for},
                       !.credit = IF ok THEN for ELSE @,
                       !.missed = IF ok THEN @ ELSE TRUE,
                       !.last = [NoBackdropOp EXCEPT !.name = "metadata", !.theme = for]]
    /\ UNCHANGED <<cartVars, search, lightbox, theme, loader, navbar, shortcuts,
                   tab, worker, overflow>>

(***************************************************************************)
(* The components that fetch a JSON resource when their script starts:     *)
(* the shop (shop.js:268), the gallery, the music list and the blog list.  *)
(* Each returns at once when its anchor element is missing; otherwise the  *)
(* anchor shows the page's loading text until a callback of the fetch      *)
(* replaces it.  requests counts the calls of fetch.                       *)
(***************************************************************************)
Components == {"shop", "gallery", "music", "blog"}

\* shop.js:7 and shop.js:268  the script's start, with or without its anchor
ComponentAtLoad(anchor) ==
    IF anchor
    THEN [anchor |-> TRUE, fetch |-> "pending", shown |-> "loading", requests |-> 1]
    ELSE [anchor |-> FALSE, fetch |-> "none", shown |-> "absent", requests |-> 0]

\* shop.js:273  the resource arrives and is rendered: cards, or the text for
\* an empty list
ComponentFetched(c, hasItems) ==
    /\ loader[c].fetch = "pending"
    /\ loader' = [loader EXCEPT ![c].fetch = "done",
                                ![c].shown = IF hasItems THEN "items" ELSE "empty"]
    /\ UNCHANGED <<cartVars, search, lightbox, theme, navbar, pageVars, overflow>>

\* shop.js:278  the catch: the fallback text replaces the anchor's content
FallbackOnFailure(l) == [l EXCEPT !.fetch = "failed", !.shown = "fallback"]

\* the fetch fails, answers with an HTTP error, or a then-callback throws
ComponentFetchFailed(c) ==
    /\ loader[c].fetch = "pending"
    /\ loader' = [loader EXCEPT ![c] = FallbackOnFailure(@)]
    /\ UNCHANGED <<cartVars, search, lightbox, theme, navbar, pageVars, overflow>>

(***************************************************************************)
(* The navigation scripts.  Two scripts of the site wire the menu and the  *)
(* nav border on DOMContentLoaded: the older one and js/nav.js; a page     *)
(* runs one of them.  hasToggle, hasLinks and hasNav say which of          *)
(* .menu-toggle, .nav-links and nav the page has.                          *)
(***************************************************************************)
NavScripts == {"navigation", "nav.js"}

NavAtLoad(script, hasToggle, hasLinks, hasNav) ==
    [script |-> script, hasToggle |-> hasToggle, hasLinks |-> hasLinks,
     hasNav |-> hasNav, active |-> FALSE, border |-> FALSE, thrown |-> FALSE,
     last |-> "load"]

\* the click handler of .menu-toggle in the older script: registered when
\* the toggle exists, and navLinks.classList is read without a check
NavigationMenuClick ==
    /\ navbar.script = "navigation"
    /\ navbar.hasToggle
    /\ navbar' = IF navbar.hasLinks
              THEN [navbar EXCEPT !.active = ~@, !.thrown = FALSE, !.last = "menuClick"]
              ELSE [navbar EXCEPT !.thrown = TRUE, !.last = "menuClick"]
    /\ UNCHANGED <<cartVars, search, lightbox, theme, loader, pageVars, overflow>>

\* the scroll handler of the older script: always registered, and nav.style
\* is read without a check
NavigationScroll(deep) ==
    /\ navbar.script = "navigation"
    /\ navbar' = IF navbar.hasNav
              THEN [navbar EXCEPT !.border = deep, !.thrown = FALSE, !.last = "scroll"]
              ELSE [navbar EXCEPT !.thrown = TRUE, !.last = "scroll"]
    /\ UNCHANGED <<cartVars, search, lightbox, theme, loader, pageVars, overflow>>

\* nav.js:34  the click handler of .menu-toggle, registered when the toggle
\* and the links both exist
MenuClick ==
    /\ navbar.script = "nav.js"
    /\ navbar.hasToggle /\ navbar.hasLinks
    /\ navbar' = [navbar EXCEPT !.active = ~@, !.thrown = FALSE, !.last = "menuClick"]
    /\ UNCHANGED <<cartVars, search, lightbox, theme, loader, pageVars, overflow>>

\* nav.js:123  the scroll handler, registered when nav exists
Scroll(deep) ==
    /\ navbar.script = "nav.js"
    /\ navbar.hasNav
    /\ navbar' = [navbar EXCEPT !.border = deep, !.thrown = FALSE, !.last = "scroll"]
    /\ UNCHANGED <<cartVars, search, lightbox, theme, loader, pageVars, overflow>>

(***************************************************************************)
(* The keyboard shortcuts script (part_000:375): its help overlay.         *)
(***************************************************************************)
ShortcutsAtLoad == [hidden |-> TRUE, last |-> "load"]

\* part_000:403  open(): the '?' key with the overlay hidden
ShortcutsOpen ==
    /\ shortcuts.hidden
    /\ shortcuts' = [hidden |-> FALSE, last |-> "open"]
    /\ overflow' = "hidden"
    /\ UNCHANGED <<cartVars, search, lightbox, theme, loader, navbar,
                   tab, backdrop, worker>>

\* part_000:404  close(): the close button, the backdrop, '?' or Escape
\* with the overlay open
ShortcutsClose ==
    /\ ~shortcuts.hidden
    /\ shortcuts' = [hidden |-> TRUE, last |-> "close"]
    /\ overflow' = ""
    /\ UNCHANGED <<cartVars, search, lightbox, theme, loader, navbar,
                   tab, backdrop, worker>>

(***************************************************************************)
(* A second page of the site, open in another tab of the same browser: it  *)
(* runs the same cart script over its own cart variable and the same       *)
(* localStorage.  added is the ids of the lines its adds raised or created.*)
(***************************************************************************)
TabClosed == [open |-> FALSE, cart |-> <<>>, added |-> {}]

\* cart.js:20  the second page loads: cart = loadCart()
TabLoad ==
    /\ storage.kind # "other"
    /\ tab' = [open |-> TRUE, cart |-> LoadCart(storage, storageAvailable).cart,
               added |-> {}]
    /\ UNCHANGED <<cartVars, search, lightbox, theme, loader, navbar,
                   shortcuts, backdrop, worker, overflow>>

\* cart.js:47  addItem in the second page: its own cart, then saveCart
TabAdd(p, variant) ==
    LET id == generateId(p.title, variant)
        i == Find(tab.cart, id)
        c == AddToCart(tab.cart, p, variant)
    IN  /\ tab.open
        /\ ~SoldOut(p)
        /\ ~(i # 0 /\ StockReached(p, tab.cart[i]))
        /\ Len(c) <= MaxLines
        /\ \A k \in 1..Len(c) : c[k].quantity <= MaxQty
        /\ tab' = [tab EXCEPT !.cart = c, !.added = @ \cup {id}]
        /\ storage' = SaveCart(c, storage, storageAvailable).storage
        /\ UNCHANGED <<cart, cartIsArray, storageAvailable, quotaLeft, sdkPresent,
                       badge, drawer, rendered, footer, toasts, thrown, checkout,
                       order, lastOp, search, lightbox, theme, loader, navbar,
                       shortcuts, backdrop, worker, overflow>>

(***************************************************************************)
(* The service worker (sw.js).  A request is known by its method, its url  *)
(* and its destination; cache is the urls that have an entry in the        *)
(* worker's cache and puts the responses whose cache.put is yet to come.   *)
(* net is what the network does with the request: "basic200" (a same-      *)
(* origin response with status 200), "other" (any other response) or       *)
(* "fails".  answer is what the page gets: "network", "cached", "index",   *)
(* "offline" (the 503), "error" (respondWith is given undefined) or        *)
(* "passed" (the worker does not call respondWith).                        *)
(***************************************************************************)
\* sw.js:2  STATIC_ASSETS, as far as the requests below ask for them
StaticAssets == {"/index.html", "/css/main.css"}

Methods == {"GET", "POST"}

Requests ==
    {[url |-> "/index.html", destination |-> "document"],
     [url |-> "/shop.html", destination |-> "document"],
     [url |-> "/css/main.css", destination |-> "style"],
     [url |-> "/assets/shop.json", destination |-> ""]}

Networks == {"basic200", "other", "fails"}

NoFetch == [name |-> "load", method |-> "GET", url |-> "", destination |-> "",
            net |-> "fails", answer |-> "passed"]

\* the worker before its install event
WorkerAtLoad == [installed |-> FALSE, cache |-> {}, puts |-> {}, last |-> NoFetch]

\* the catch that answers 503 whatever the cache holds
OfflineAlways(cached, request) == "offline"

\* sw.js:50  the catch of the network fetch
OfflineAnswer(cached, request) ==
    IF request.url \in cached THEN "cached"
    ELSE IF request.destination = "document"
    THEN (IF "/index.html" \in cached THEN "index" ELSE "error")
    ELSE "offline"

\* sw.js:14  install: cache.addAll(STATIC_ASSETS) inside waitUntil; when it
\* rejects the worker is discarded and never sees a fetch
WorkerInstall(added) ==
    /\ ~worker.installed
    /\ worker' = IF added
                 THEN [worker EXCEPT !.installed = TRUE, !.cache = StaticAssets,
                                     !.last = [NoFetch EXCEPT !.name = "install"]]
                 ELSE [worker EXCEPT !.last = [NoFetch EXCEPT !.name = "discarded"]]
    /\ UNCHANGED <<cartVars, search, lightbox, theme, loader, navbar, shortcuts,
                   tab, backdrop, overflow>>

\* sw.js:36  the fetch event of a page the worker controls
WorkerFetch(method, request, net) ==
    /\ worker.installed
    /\ worker' =
          [worker EXCEPT
             !.puts = IF method = "GET" /\ net = "basic200"
                      THEN @ \cup {request.url} ELSE @,
             !.last = [name |-> "fetch", method |-> method, url |-> request.url,
                       destination |-> request.destination, net |-> net,
                       answer |-> IF method # "GET" THEN "passed"
                                  ELSE IF net # "fails" THEN "network"
                                  ELSE OfflineAnswer(worker.cache, request)]]
    /\ UNCHANGED <<cartVars, search, lightbox, theme, loader, navbar, shortcuts,
                   tab, backdrop, overflow>>

\* sw.js:43  caches.open(CACHE_NAME).then: cache.put(event.request, clone)
WorkerCachePut(url) ==
    /\ url \in worker.puts
    /\ worker' = [worker EXCEPT !.puts = @ \ {url}, !.cache = @ \cup {url},
                                !.last = [NoFetch EXCEPT !.name = "put", !.url = url]]
    /\ UNCHANGED <<cartVars, search, lightbox, theme, loader, navbar, shortcuts,
                   tab, backdrop, overflow>>

\* the components of the site other than the cart, as a page load leaves them
\* before anything is fetched or pressed
\* the page's further scripts as a page load leaves them
PageAtRest ==
    /\ shortcuts = ShortcutsAtLoad
    /\ tab = TabClosed
    /\ backdrop = BackdropAtLoad("api", [t \in Themes |-> TRUE], "dark")
    /\ worker = WorkerAtLoad

SiteAtRest ==
    /\ PageAtRest
    /\ search = SearchAtLoad
    /\ lightbox = LightboxAtLoad
    /\ theme = ThemeAtLoad("", "dark", TRUE, TRUE)
    /\ loader = [c \in Components |-> ComponentAtLoad(FALSE)]
    /\ navbar = NavAtLoad("nav.js", TRUE, TRUE, TRUE)

\* the state a browser session starts in: the first page has loaded
BootFrom(stored, available, budget) ==
    /\ storageAvailable = available
    /\ storage = stored
    /\ quotaLeft = budget
    /\ cart = LoadCart(storage, storageAvailable).cart
    /\ cartIsArray = LoadCart(storage, storageAvailable).isArray
    /\ \E page \in Pages :
          /\ sdkPresent = page.sdk
          /\ thrown = (LoadCart(storage, storageAvailable).threw
                         \/ BadgeThrows(page.nav, cartIsArray))
          /\ badge = IF BadgeThrows(page.nav, cartIsArray) THEN ZeroBadge
                     ELSE InjectCartIcon(page.nav, cart)
    /\ drawer = "none"
    /\ overflow = ""
    /\ rendered = <<>>
    /\ footer = NoFooter
    /\ toasts = <<>>
    /\ checkout = "idle"
    /\ order = NoOrder
    /\ lastOp = Op("load")

\* the first page loads over what earlier visits of this site left in storage
Boot(available, budget) ==
    \E stored \in {Absent, Corrupt, JSONstringify(<<>>)} : BootFrom(stored, available, budget)

\* a browser whose storage either works or cannot be accessed at all
Init == SiteAtRest /\ \E available \in BOOLEAN : Boot(available, 0)

Next ==
    \/ \E call \in AddCalls, quota \in BOOLEAN : AddItem(call[1], call[2], quota)
    \/ \E id \in IdsOf(cart) \cup {NoSuchId}, quota \in BOOLEAN : RemoveItem(id, quota)
    \/ \E id \in IdsOf(rendered), delta \in {-1, 1}, quota \in BOOLEAN :
          UpdateQuantity(id, delta, quota)
    \/ \E quota \in BOOLEAN : ClearCart(quota)
    \/ DeclineClear
    \/ OpenDrawer
    \/ CloseDrawer
    \/ \E page \in Pages : PageLoad(page)

Spec == Init /\ [][Next]_vars

(***************************************************************************)
(* The cart with the checkout flow, on a browser whose storage can also    *)
(* run out of quota, with the plain mug and the plain tee for sale.        *)
(***************************************************************************)
CheckoutAddCalls == {<<Mug, <<>>>>, <<Tee, <<>>>>}

InitCheckout == SiteAtRest /\ \E available \in BOOLEAN : Boot(available, MaxQuotaFailures)

NextCheckout ==
    \/ \E call \in CheckoutAddCalls, quota \in BOOLEAN : AddItem(call[1], call[2], quota)
    \/ \E id \in IdsOf(cart) \cup {NoSuchId}, quota \in BOOLEAN : RemoveItem(id, quota)
    \/ \E id \in IdsOf(rendered), delta \in {-1, 1}, quota \in BOOLEAN :
          UpdateQuantity(id, delta, quota)
    \/ \E quota \in BOOLEAN : ClearCart(quota)
    \/ DeclineClear
    \/ OpenDrawer
    \/ CloseDrawer
    \/ \E page \in Pages : PageLoad(page)
    \/ CreateOrder
    \/ OnApprove
    \/ \E named \in BOOLEAN, quota \in BOOLEAN : CaptureResolved(named, quota)
    \/ OnError
    \/ CancelCheckout

SpecCheckout == InitCheckout /\ [][NextCheckout]_vars

(***************************************************************************)
(* The cart and the checkout flow over a catalogue whose tee changes price *)
(* between two fetches of the catalogue; storage has room.                 *)
(***************************************************************************)
CatalogAddCalls == {<<Mug, <<>>>>, <<Tee, <<>>>>, <<TeeRepriced, <<>>>>}

NextCatalog ==
    \/ \E call \in CatalogAddCalls, quota \in BOOLEAN : AddItem(call[1], call[2], quota)
    \/ \E id \in IdsOf(cart) \cup {NoSuchId}, quota \in BOOLEAN : RemoveItem(id, quota)
    \/ \E id \in IdsOf(rendered), delta \in {-1, 1}, quota \in BOOLEAN :
          UpdateQuantity(id, delta, quota)
    \/ \E quota \in BOOLEAN : ClearCart(quota)
    \/ DeclineClear
    \/ OpenDrawer
    \/ CloseDrawer
    \/ \E page \in Pages : PageLoad(page)
    \/ CreateOrder
    \/ OnApprove
    \/ \E named \in BOOLEAN, quota \in BOOLEAN : CaptureResolved(named, quota)
    \/ OnError
    \/ CancelCheckout

SpecCatalog == Init /\ [][NextCatalog]_vars

(***************************************************************************)
(* The cart over a catalogue that lists two tees whose titles differ in    *)
(* their capitals only; storage has room.                                  *)
(***************************************************************************)
TitleAddCalls == {<<Tee, <<>>>>, <<TeeCaps, <<>>>>, <<Tee, <<"S">>>>}

NextTitles ==
    \/ \E call \in TitleAddCalls, quota \in BOOLEAN : AddItem(call[1], call[2], quota)
    \/ \E id \in IdsOf(cart) \cup {NoSuchId}, quota \in BOOLEAN : RemoveItem(id, quota)
    \/ \E id \in IdsOf(rendered), delta \in {-1, 1}, quota \in BOOLEAN :
          UpdateQuantity(id, delta, quota)
    \/ \E quota \in BOOLEAN : ClearCart(quota)
    \/ DeclineClear
    \/ OpenDrawer
    \/ CloseDrawer
    \/ \E page \in Pages : PageLoad(page)

SpecTitles == Init /\ [][NextTitles]_vars

(***************************************************************************)
(* The cart on a browser where the cart key may hold anything: nothing,    *)
(* text that is no JSON, or JSON for a value that is no list.              *)
(***************************************************************************)
InitStored ==
    /\ SiteAtRest
    /\ \E available \in BOOLEAN, stored \in {Absent, Corrupt, Other} :
          BootFrom(stored, available, 0)

SpecStored == InitStored /\ [][Next]_vars

(***************************************************************************)
(* Two pages of the site open on the same storage.                         *)
(***************************************************************************)
NextTabs ==
    \/ \E call \in CheckoutAddCalls, quota \in BOOLEAN : AddItem(call[1], call[2], quota)
    \/ \E id \in IdsOf(cart) \cup {NoSuchId}, quota \in BOOLEAN : RemoveItem(id, quota)
    \/ \E quota \in BOOLEAN : ClearCart(quota)
    \/ \E page \in Pages : PageLoad(page)
    \/ TabLoad
    \/ \E call \in CheckoutAddCalls : TabAdd(call[1], call[2])

SpecTabs == Init /\ [][NextTabs]_vars

(***************************************************************************)
(* The other components run on a page whose cart is left alone: storage    *)
(* works and is empty, and the nav carries the cart icon.                  *)
(***************************************************************************)
CartAtRest ==
    /\ Boot(TRUE, 0)
    /\ storage = Absent
    /\ sdkPresent
    /\ badge.injected

\* the search overlay, from the page load on
InitSearch == CartAtRest /\ SiteAtRest

NextSearch ==
    \/ OpenSearch
    \/ CloseSearch
    \/ \E text \in Typed : SearchInput(text)
    \/ \E data \in Indexes : IndexFetched(TRUE, data)
    \/ IndexFetched(FALSE, <<>>)
    \/ IndexFetchFailed

SpecSearch == InitSearch /\ [][NextSearch]_vars

\* the shop's lightbox, from the page load on
NextLightbox ==
    \/ \E list \in FilteredLists : \E i \in 0..(Len(list) - 1) : OpenProductLightbox(list, i)
    \/ CloseProductLightbox
    \/ KeyArrowRight
    \/ KeyArrowLeft

SpecLightbox == InitSearch /\ [][NextLightbox]_vars

\* the page's chrome: the theme script under either system preference, and
\* one of the navigation scripts on a page with any of its anchors
InitChrome ==
    /\ CartAtRest
    /\ PageAtRest
    /\ search = SearchAtLoad
    /\ lightbox = LightboxAtLoad
    /\ loader = [c \in Components |-> ComponentAtLoad(FALSE)]
    /\ \E system \in Themes : theme = ThemeAtLoad("", system, TRUE, TRUE)
    /\ \E script \in NavScripts, hasToggle \in BOOLEAN, hasLinks \in BOOLEAN,
          hasNav \in BOOLEAN : navbar = NavAtLoad(script, hasToggle, hasLinks, hasNav)

NextChrome ==
    \/ \E writeOk \in BOOLEAN : ThemeToggle(writeOk)
    \/ SystemThemeChange
    \/ \E button \in BOOLEAN, listener \in BOOLEAN : ThemePageLoad(button, listener)
    \/ NavigationMenuClick
    \/ \E deep \in BOOLEAN : NavigationScroll(deep)
    \/ MenuClick
    \/ \E deep \in BOOLEAN : Scroll(deep)

SpecChrome == InitChrome /\ [][NextChrome]_vars

\* the fetches of a page: the four components, each with or without its
\* anchor, and the index of the search overlay
LoadedIndexes == {<<>>, <<PostWork>>}

InitLoad ==
    /\ CartAtRest
    /\ PageAtRest
    /\ search = SearchAtLoad
    /\ lightbox = LightboxAtLoad
    /\ theme = ThemeAtLoad("", "dark", TRUE, TRUE)
    /\ navbar = NavAtLoad("nav.js", TRUE, TRUE, TRUE)
    /\ \E anchors \in [Components -> BOOLEAN] :
          loader = [c \in Components |-> ComponentAtLoad(anchors[c])]

NextLoad ==
    \/ \E c \in Components, hasItems \in BOOLEAN : ComponentFetched(c, hasItems)
    \/ \E c \in Components : ComponentFetchFailed(c)
    \/ OpenSearch
    \/ CloseSearch
    \/ \E data \in LoadedIndexes : IndexFetched(TRUE, data)
    \/ IndexFetchFailed

SpecLoad == InitLoad /\ [][NextLoad]_vars

(***************************************************************************)
(* The backgrounds script on a page with the theme toggle.                 *)
(***************************************************************************)
InitBackdrop ==
    /\ CartAtRest
    /\ search = SearchAtLoad
    /\ lightbox = LightboxAtLoad
    /\ loader = [c \in Components |-> ComponentAtLoad(FALSE)]
    /\ navbar = NavAtLoad("nav.js", TRUE, TRUE, TRUE)
    /\ shortcuts = ShortcutsAtLoad
    /\ tab = TabClosed
    /\ worker = WorkerAtLoad
    /\ \E saved \in Themes \cup {""}, system \in Themes :
          theme = ThemeAtLoad(saved, system, TRUE, TRUE)
    /\ \E variant \in Variants, cached \in [Themes -> BOOLEAN] :
          backdrop = BackdropAtLoad(variant, cached, getCurrentTheme(theme))

NextBackdrop ==
    \/ \E writeOk \in BOOLEAN : ThemeToggle(writeOk)
    \/ \E f \in backdrop.fetches, hasImage \in BOOLEAN : FetchArrived(f, hasImage)
    \/ \E f \in backdrop.fetches : FetchFailed(f)
    \/ \E for \in backdrop.images : ImageLoaded(for)
    \/ \E for \in backdrop.images : ImageFailed(for)
    \/ \E for \in backdrop.metas, ok \in BOOLEAN : MetadataArrived(for, ok)

SpecBackdrop == InitBackdrop /\ [][NextBackdrop]_vars

(***************************************************************************)
(* The service worker, from its registration on.                           *)
(***************************************************************************)
NextWorker ==
    \/ \E added \in BOOLEAN : WorkerInstall(added)
    \/ \E method \in Methods, request \in Requests, net \in Networks :
          WorkerFetch(method, request, net)
    \/ \E url \in worker.puts : WorkerCachePut(url)

InitWorker == CartAtRest /\ SiteAtRest

SpecWorker == InitWorker /\ [][NextWorker]_vars

(***************************************************************************)
(* The overlays of the shop page: the cart drawer, the search overlay, the *)
(* lightbox and the shortcuts help, each with its own keydown handler.     *)
(***************************************************************************)
\* one Escape keydown reaches every handler: cart.js:178, part_001:148,
\* shop.js:65 and part_000:417.  inInput is whether the key is pressed in the
\* search input, where the shortcuts handler returns at once (part_000:412).
KeyEscape(inInput) ==
    /\ inInput => ~search.hidden
    /\ drawer = "open" \/ ~search.hidden \/ ~lightbox.hidden
          \/ (~shortcuts.hidden /\ ~inInput)
    /\ drawer' = IF drawer = "open" THEN "hidden" ELSE drawer
    /\ lastOp' = IF drawer = "open" THEN Op("close") ELSE lastOp
    /\ toasts' = IF drawer = "open" THEN <<>> ELSE toasts
    /\ thrown' = IF drawer = "open" THEN FALSE ELSE thrown
    /\ search' = IF search.hidden THEN search
                 ELSE [search EXCEPT !.hidden = TRUE, !.last = "close"]
    /\ lightbox' = IF lightbox.hidden THEN lightbox
                   ELSE [lightbox EXCEPT !.hidden = TRUE, !.last = "close"]
    /\ shortcuts' = IF shortcuts.hidden \/ inInput THEN shortcuts
                    ELSE [hidden |-> TRUE, last |-> "close"]
    /\ overflow' = ""
    /\ UNCHANGED <<cart, cartIsArray, storage, storageAvailable, quotaLeft,
                   sdkPresent, badge, rendered, footer, checkout, order,
                   theme, loader, navbar, tab, backdrop, worker>>

OverlayLists == {<<"print", "mug">>}

NextOverlays ==
    \/ OpenDrawer
    \/ CloseDrawer
    \/ OpenSearch
    \/ CloseSearch
    \/ \E list \in OverlayLists : \E i \in 0..(Len(list) - 1) : OpenProductLightbox(list, i)
    \/ CloseProductLightbox
    \/ ShortcutsOpen
    \/ ShortcutsClose
    \/ \E inInput \in BOOLEAN : KeyEscape(inInput)

InitOverlays == CartAtRest /\ SiteAtRest

SpecOverlays == InitOverlays /\ [][NextOverlays]_vars

(***************************************************************************)
(* Properties.                                                             *)
(***************************************************************************)
HasId(c, id) == \E i \in 1..Len(c) : c[i].id = id

QuantityOf(c, id) == c[CHOOSE i \in 1..Len(c) : c[i].id = id].quantity

\* the sum of price * quantity, and of quantity, over the lines, from the right
RECURSIVE LineSum(_)
LineSum(c) ==
    IF c = <<>> THEN 0 ELSE Head(c).price * Head(c).quantity + LineSum(Tail(c))

RECURSIVE QuantitySum(_)
QuantitySum(c) == IF c = <<>> THEN 0 ELSE Head(c).quantity + QuantitySum(Tail(c))

\* the list the stored value reads as on the next page load
Persisted == LoadCart(storage, storageAvailable).cart

\* C1, as stated: after every completed cart mutation (add, remove,
\* updateQuantity, clear, the clear of a successful checkout) the stored value,
\* loaded as the next page load loads it, is the in-memory cart.
C1_StoredIsCart ==
    lastOp.write # "none" => Persisted = cart

\* C1, amended: after every completed cart mutation whose write to storage
\* succeeded, the stored value, loaded as the next page load loads it, is the
\* in-memory cart: same lines, same order, same field values.
C1_StoredIsCartWhenWritten ==
    lastOp.write = "ok" => Persisted = cart

C1_Witness ==
    /\ lastOp.name = "add"
    /\ lastOp.write = "ok"
    /\ Len(cart) = 2
    /\ storage = JSONstringify(cart)

\* C2: no two cart lines have the same id; an add for a title+variant whose
\* line exists and is below its stock limit raises that line's quantity by
\* exactly 1 and leaves the number of lines unchanged.
C2_AddMerges ==
    [][LET id == generateId(lastOp'.product.title, lastOp'.variant)
       IN  /\ \A i, j \in 1..Len(cart') : i # j => cart'[i].id # cart'[j].id
           /\ ( /\ lastOp'.name = "add"
                /\ HasId(cart, id)
                /\ ~lastOp'.product.hasStock
                     \/ QuantityOf(cart, id) < lastOp'.product.stock )
              => /\ Len(cart') = Len(cart)
                 /\ HasId(cart', id)
                 /\ QuantityOf(cart', id) = QuantityOf(cart, id) + 1]_vars

\* the same product and variant added twice to an empty cart
C2_Witness ==
    /\ lastOp.name = "add"
    /\ lastOp.product = Tee
    /\ lastOp.variant = <<"S">>
    /\ Len(cart) = 1
    /\ cart[1].id = generateId(Tee.title, <<"S">>)
    /\ cart[1].quantity = 2

\* C3: an add for a product with a declared stock limit, called when the line
\* of the product+variant is at or over that limit, is rejected: the cart and
\* the stored value are unchanged, a warning notice is raised and no
\* 'Added to cart' notice is.
C3_AddAtLimitRejected ==
    [][LET id == generateId(lastOp'.product.title, lastOp'.variant)
       IN  ( /\ lastOp'.name = "add"
             /\ lastOp'.product.hasStock
             /\ HasId(cart, id)
             /\ QuantityOf(cart, id) >= lastOp'.product.stock )
           => /\ cart' = cart
              /\ storage' = storage
              /\ \E k \in 1..Len(toasts') : toasts'[k].type = "warning"
              /\ \A k \in 1..Len(toasts') : toasts'[k].message # "Added to cart"]_vars

\* C4: every line's quantity is an integer >= 1; a minus press leaves the line
\* in the cart; only remove, clear and a successful checkout delete a line of
\* the page's cart.
C4_QuantityAtLeastOne ==
    [][/\ \A i \in 1..Len(cart') : cart'[i].quantity \in Nat \ {0}
       /\ lastOp'.name \notin {"remove", "clear", "captureResolved", "load"}
            => IdsOf(cart) \subseteq IdsOf(cart')
       /\ (lastOp'.name = "updateQuantity" /\ lastOp'.delta = -1)
            => /\ HasId(cart', lastOp'.id)
               /\ QuantityOf(cart', lastOp'.id) >= 1
               /\ QuantityOf(cart', lastOp'.id) >= QuantityOf(cart, lastOp'.id) - 1]_vars

\* a minus press on a line that ends at quantity 1
C4_Witness ==
    /\ lastOp.name = "updateQuantity"
    /\ lastOp.delta = -1
    /\ HasId(cart, lastOp.id)
    /\ QuantityOf(cart, lastOp.id) = 1

\* C5: total() is the sum of price * quantity over the lines and count() the
\* sum of their quantities, both 0 for an empty cart; the badge and the
\* drawer's subtotal show them.
C5_TotalsAreSums ==
    /\ cartTotal(cart) = LineSum(cart)
    /\ cartCount(cart) = QuantitySum(cart)
    /\ cart = <<>> => cartTotal(cart) = 0 /\ cartCount(cart) = 0
    /\ badge.injected => badge.text = QuantitySum(cart)
    /\ (drawer # "none" /\ cart # <<>>) => footer.subtotal = LineSum(cart)

C5_Witness ==
    /\ Len(cart) = 2
    /\ cart[1].quantity = 2
    /\ cart[1].price # cart[2].price
    /\ cart[2].price > 0
    /\ drawer = "open"
    /\ badge.injected

\* C6: the checkout flow clears the cart and closes the drawer exactly when
\* the capture resolves: always once it has resolved, and never on the
\* order's creation, on approval while the capture is pending, on a cancel or
\* on an error the SDK reports.
C6_ClearedExactlyOnCapture ==
    [][/\ lastOp'.name = "captureResolved"
            => cart' = <<>> /\ drawer' = "hidden"
       /\ lastOp'.name \in {"createOrder", "onApprove", "onError", "cancel"}
            => cart' = cart /\ drawer' = drawer]_vars

\* C7: when the SDK reports an error a failure notice is raised, the cart,
\* the stored value and the drawer stay as they were, and no checkout attempt
\* is under way afterwards.
C7_ErrorLeavesCart ==
    [][(lastOp'.name = "onError"
          \/ (lastOp'.name = "captureResolved" /\ ~lastOp'.named))
       => /\ \E k \in 1..Len(toasts') : toasts'[k].type = "error"
          /\ cart' = cart
          /\ storage' = storage
          /\ drawer' = drawer
          /\ checkout' = "idle"]_vars

\* an error reported with the drawer open on a non-empty cart
C7_Witness ==
    /\ lastOp.name = "onError"
    /\ cart # <<>>
    /\ drawer = "open"
    /\ Len(toasts) = 1
    /\ toasts[1].type = "error"

\* C8, as stated: clear() leaves the in-memory cart empty and the stored value
\* an empty list.
C8_ClearEmptiesBoth ==
    lastOp.name = "clear" => cart = <<>> /\ Persisted = <<>>

\* C8, amended: clear() leaves the in-memory cart empty and, when its write to
\* storage succeeds, the stored value an empty list.
C8_ClearEmptiesCart ==
    lastOp.name = "clear"
        => /\ cart = <<>>
           /\ lastOp.write = "ok" => storage = JSONstringify(<<>>)

\* a clear that was written, with the emptied drawer on show
C8_Witness ==
    /\ lastOp.name = "clear"
    /\ lastOp.write = "ok"
    /\ drawer = "open"
    /\ storage = JSONstringify(<<>>)

\* a load that finds the stored value corrupt, or storage unreadable
BadLoad(op, st, available) ==
    op.name = "load" /\ (~available \/ st.kind = "corrupt")

\* C9: a load that finds the stored value corrupt, or storage unreadable,
\* gives an empty cart and raises no error; add, remove and clear then work
\* as on an empty cart.
C9_BadLoadIsEmpty ==
    [][/\ BadLoad(lastOp, storage, storageAvailable) => cart = <<>> /\ ~thrown
       /\ BadLoad(lastOp', storage', storageAvailable') => cart' = <<>> /\ ~thrown'
       /\ (BadLoad(lastOp, storage, storageAvailable) /\ lastOp'.name = "add")
            => /\ ~thrown'
               /\ Len(cart') = 1
               /\ cart'[1].id = generateId(lastOp'.product.title, lastOp'.variant)
               /\ cart'[1].quantity = 1
       /\ (BadLoad(lastOp, storage, storageAvailable)
             /\ lastOp'.name \in {"remove", "clear"})
            => ~thrown' /\ cart' = <<>>]_vars

\* an add made after a load of a corrupt value, which is still there
C9_Witness ==
    /\ storageAvailable
    /\ storage.kind = "corrupt"
    /\ lastOp.name = "add"
    /\ Len(cart) = 1
    /\ ~thrown

\* the list a mutator leaves when storage works
ExpectedCart(c, op) ==
    CASE op.name = "add" -> AddToCart(c, op.product, op.variant)
      [] op.name = "remove" -> RemoveFromCart(c, op.id)
      [] op.name = "updateQuantity" -> SetQuantity(c, op.id, op.delta)
      [] OTHER -> <<>>

\* C10: when the write to storage fails, add, remove, updateQuantity and clear
\* still complete, raise no error, and change the in-memory cart as they do
\* when storage works; the badge, the drawer and the notice follow.
C10_WriteFailureIsSilent ==
    [][lastOp'.write = "failed"
       => /\ ~thrown'
          /\ cart' = ExpectedCart(cart, lastOp')
          /\ badge.injected => badge'.text = QuantitySum(cart')
          /\ drawer # "none" => rendered' = cart'
          /\ lastOp'.name = "add"
               => \E k \in 1..Len(toasts') : toasts'[k].message = "Added to cart"]_vars

\* a quantity change whose write failed for lack of quota
C10_Witness ==
    /\ storageAvailable
    /\ lastOp.name = "updateQuantity"
    /\ lastOp.write = "failed"
    /\ Persisted # cart
    /\ ~thrown

C12_NoLineOfSoldOut ==
    \A call \in AddCalls :
        SoldOut(call[1]) => ~HasId(cart, generateId(call[1].title, call[2]))

\* C13: the price of a line is fixed when the line is created: a line that
\* stays in the cart keeps its price, and an add of the same product+variant
\* at another catalogue price raises the quantity by 1 and nothing else.
C13_PriceFixedAtCreation ==
    [][/\ \A i \in 1..Len(cart), j \in 1..Len(cart') :
            cart[i].id = cart'[j].id => cart'[j].price = cart[i].price
       /\ LET id == generateId(lastOp'.product.title, lastOp'.variant)
          IN  ( /\ lastOp'.name = "add"
                /\ lastOp'.write # "none"
                /\ HasId(cart, id) )
              => LET i == CHOOSE k \in 1..Len(cart) : cart[k].id = id
                 IN  cart' = [cart EXCEPT ![i].quantity = @ + 1]]_vars

\* the tee added at $20, then added again at its later price
C13_Witness ==
    /\ lastOp.name = "add"
    /\ lastOp.product = TeeRepriced
    /\ Len(cart) = 1
    /\ cart[1].price = Tee.price
    /\ cart[1].quantity = 2

\* the sum of unit amount * quantity over the items of an order, in cents
RECURSIVE ItemSum(_)
ItemSum(items) ==
    IF items = <<>> THEN 0
    ELSE Head(items).unit_amount * Head(items).quantity + ItemSum(Tail(items))

\* C20: the order handed to the SDK has one item per cart line, in cart
\* order, with the line's title and quantity as they are when the order is
\* created, and its declared item total is the sum over the items of unit
\* amount * quantity, in cents.
C20_OrderMatchesCart ==
    lastOp.name = "createOrder"
        => /\ Len(order.items) = Len(cart)
           /\ \A i \in 1..Len(cart) :
                  /\ order.items[i].name = cart[i].title
                  /\ order.items[i].quantity = cart[i].quantity
           /\ order.total = ItemSum(order.items)

\* case-insensitive containment of a query in a field
Contains(field, query) ==
    \E i \in 0..(Len(field) - Len(query)) :
        \A k \in 1..Len(query) : LowerChar(field[i + k]) = LowerChar(query[k])

\* the tags of an entry with a space between them
RECURSIVE Spaced(_)
Spaced(tags) ==
    IF tags = <<>> THEN <<>>
    ELSE IF Tail(tags) = <<>> THEN Head(tags)
    ELSE Head(tags) \o <<" ">> \o Spaced(Tail(tags))

\* 10 for the title, 5 for the category, 3 for the tags, 1 for the preview
WeightedScore(e, query) ==
    (IF Contains(e.title, query) THEN 10 ELSE 0)
    + (IF Contains(e.category, query) THEN 5 ELSE 0)
    + (IF Contains(Spaced(e.tags), query) THEN 3 ELSE 0)
    + (IF Contains(e.preview, query) THEN 1 ELSE 0)

\* an input event has just filtered the index for a non-empty query
Searched(s) == s.last = "input" /\ trim(s.input) # <<>>

\* C14: for a non-empty query the result list is exactly the index entries
\* with a positive score (10 title, 5 category, 3 tags, 1 preview, by
\* case-insensitive containment), ordered by descending score, entries of
\* equal score in index order.
C14_ResultsAreScoredEntries ==
    Searched(search)
        => LET es == search.entries
               q == trim(search.input)
               list == search.shown.list
           IN  /\ \A k \in 1..Len(list) :
                      list[k] \in 1..Len(es) /\ WeightedScore(es[list[k]], q) > 0
               /\ \A i \in 1..Len(es) :
                      WeightedScore(es[i], q) > 0
                          => Cardinality({k \in 1..Len(list) : list[k] = i}) = 1
               /\ \A k, l \in 1..Len(list) :
                      k < l => \/ WeightedScore(es[list[k]], q) > WeightedScore(es[list[l]], q)
                               \/ /\ WeightedScore(es[list[k]], q) = WeightedScore(es[list[l]], q)
                                  /\ list[k] < list[l]

\* three results: the last entry of the index first, then two of equal score
C14_Witness ==
    /\ Searched(search)
    /\ Len(search.entries) = 3
    /\ search.shown.list = <<3, 1, 2>>
    /\ search.entries[1] = search.entries[2]

\* the entries whose title contains the query
TitleMatches(es, q) == {i \in 1..Len(es) : Contains(es[i].title, q)}

\* C15, as stated: a query that matches M entries by title gets exactly M
\* results, the M title-matching entries.
C15_ExactlyTitleMatches ==
    Searched(search)
        => LET list == search.shown.list
               M == Cardinality(TitleMatches(search.entries, trim(search.input)))
           IN  /\ Len(list) = M
               /\ {list[k] : k \in 1..M} = TitleMatches(search.entries, trim(search.input))

\* C15, amended: a query that matches M entries by title gets at least M
\* results, one for each entry that matches in some field, and the M
\* title-matching entries are the first M of them.
C15_TitleMatchesFirst ==
    Searched(search)
        => LET es == search.entries
               q == trim(search.input)
               list == search.shown.list
               M == Cardinality(TitleMatches(es, q))
           IN  /\ Len(list) >= M
               /\ Len(list) = Cardinality({i \in 1..Len(es) : WeightedScore(es[i], q) > 0})
               /\ {list[k] : k \in 1..M} = TitleMatches(es, q)

\* one title match, shown ahead of two entries that match elsewhere
C15_Witness ==
    /\ Searched(search)
    /\ Cardinality(TitleMatches(search.entries, trim(search.input))) = 1
    /\ Len(search.shown.list) = 3
    /\ search.shown.list[1] = 3

C19_ToggleFlipsTheme ==
    [][theme'.last = "toggle"
       => /\ theme'.applied = Flip(theme.applied)
          /\ theme.listener => theme'.notified = <<theme'.applied>>
          /\ theme'.write = "ok" => theme'.saved = theme'.applied]_vars

\* C17: when a component's fetch has failed the component shows its fixed
\* fallback text and not its loading state, and it has asked for the
\* resource once; so for the shop, the gallery, the music list, the blog
\* list and the search overlay.
C17_FailedFetchShowsFallback ==
    /\ \A c \in Components :
          loader[c].fetch = "failed"
              => loader[c].shown = "fallback" /\ loader[c].requests = 1
    /\ search.fetch = "failed" => search.shown.kind \notin {"loading", "list"}

\* C18: a handler of the navigation component that runs on a page without
\* the element it works on changes nothing and raises no error, and a
\* fetching component without its anchor never fetches or shows anything.
C18_NoOpWithoutAnchor ==
    [][/\ (navbar'.last = "scroll" /\ ~navbar.hasNav)
            => ~navbar'.thrown /\ navbar'.border = navbar.border
       /\ (navbar'.last = "menuClick" /\ ~(navbar.hasToggle /\ navbar.hasLinks))
            => ~navbar'.thrown /\ navbar'.active = navbar.active
       /\ \A c \in Components :
             ~loader[c].anchor => loader'[c] = ComponentAtLoad(FALSE)]_vars

\* C21: a response of a background fetch for a theme that arrives when the
\* current theme is another one changes neither the background, nor the image
\* loads under way, nor the credit link; it is written to the cache of its own
\* theme and leaves the other theme's cache alone.
C21_LateFetchOnlyCached ==
    [][( /\ backdrop'.last.name \in {"fetched", "failed"}
         /\ backdrop'.fetches # backdrop.fetches
         /\ backdrop'.last.late )
       => /\ backdrop'.image = backdrop.image
          /\ backdrop'.images = backdrop.images
          /\ backdrop'.credit = backdrop.credit
          /\ backdrop'.last.hasImage => backdrop'.cache[backdrop'.last.theme]
          /\ backdrop'.cache[Flip(backdrop'.last.theme)]
                = backdrop.cache[Flip(backdrop'.last.theme)]]_vars

\* C21 witness: the response to a fetch that applyForTheme started arrived
\* with an image after the theme had changed, and was cached
C21_Witness ==
    /\ backdrop.last.name = "fetched"
    /\ backdrop.last.applies
    /\ backdrop.last.hasImage
    /\ backdrop.last.late
    /\ backdrop.cache[backdrop.last.theme]

\* C22: for a product with a positive declared stock s, whatever adds and
\* presses of the drawer's plus, minus and remove buttons came before, the
\* quantity of the product's line is at most s.
C22_QuantityWithinStock ==
    \A call \in AddCalls : \A i \in 1..Len(cart) :
        ( /\ call[1].hasStock
          /\ call[1].stock > 0
          /\ cart[i].id = generateId(call[1].title, call[2]) )
        => cart[i].quantity <= call[1].stock

\* C23: the clear that follows a capture removes exactly the lines of the
\* captured order, with the quantities of the order, also when the cart was
\* changed after the order's creation.
C23_ClearRemovesOrderedLines ==
    [][(lastOp'.name = "captureResolved" /\ lastOp'.named)
       => /\ Len(cart) = Len(order.items)
          /\ \A i \in 1..Len(cart) :
                /\ cart[i].title = order.items[i].name
                /\ cart[i].quantity = order.items[i].quantity]_vars

\* C24: with two pages open on the same storage, a line one page added and
\* that is persisted is still persisted after the other page adds a line or
\* removes another line.  Fails: saveCart writes the page's own list whole.
C24_OtherPagesLinesKept ==
    [][( /\ lastOp'.name \in {"add", "remove"}
         /\ lastOp'.write = "ok" )
       => \A id \in tab.added :
             (id # lastOp'.id /\ HasId(storage.lines, id)) => HasId(storage'.lines, id)]_vars

\* C25: the page's scroll is locked exactly while at least one overlay (the
\* cart drawer, the search overlay, the lightbox, the shortcuts help) is open.
\* Fails: every overlay's close clears the lock whatever else is open.
C25_LockedWhileAnyOverlayOpen ==
    (overflow = "hidden")
        <=> ( \/ drawer = "open"
              \/ ~search.hidden
              \/ ~lightbox.hidden
              \/ ~shortcuts.hidden )

\* C26: once the index has loaded, the results shown in the open overlay are
\* the filter's result for the text the input holds.  Fails: the index's
\* arrival renders every entry under text typed while it was loading.
C26_ShownIsFilterOfInput ==
    (search.fetch = "done" /\ ~search.hidden)
        => search.shown = Filter(search.entries, trim(search.input))

\* C27: when no background fetch, metadata fetch or image load is pending any
\* more (and none has failed or come without an image), the background image
\* and the credit link are those of the current theme.  Fails: the image loads
\* and the metadata fetches apply in the order they complete, whatever the
\* theme is by then.
C27_SettledBackdropIsCurrent ==
    ( /\ backdrop.fetches = {}
      /\ backdrop.images = {}
      /\ backdrop.metas = {}
      /\ ~backdrop.missed )
        => /\ backdrop.image = getCurrentTheme(theme)
           /\ backdrop.credit = getCurrentTheme(theme)

\* C28: whatever the cart key holds, the cart after a page load is a list, and
\* the page load, add, remove and clear complete without raising an error.
\* Fails: JSON.parse(stored) || [] keeps a stored number or object, and the
\* badge's count on load, add and remove then end in a TypeError.
C28_LoadedCartIsList ==
    /\ cartIsArray
    /\ lastOp.name \in {"load", "add", "remove", "clear"} => ~thrown

\* C29: two adds whose (title, variant) pairs differ never share a line: the
\* line an add raises or creates carries the title and variant of that add.
C29_DistinctPairsDistinctLines ==
    [][(lastOp'.name = "add" /\ lastOp'.write # "none")
       => \E i \in 1..Len(cart') :
             /\ cart'[i].id = generateId(lastOp'.product.title, lastOp'.variant)
             /\ cart'[i].title = LineTitle(lastOp'.product.title, lastOp'.variant)
             /\ cart'[i].variant = lastOp'.variant]_vars

\* C30: the worker answers every GET it intercepts: with the network's
\* response when the network fetch succeeds; else with the cached response for
\* the request when there is one; else with the cached /index.html for a
\* document request; else with the 503 "Offline".  A request of another method
\* is not answered by the worker.
C30_EveryGetAnswered ==
    [][(worker'.last.name = "fetch" /\ worker' # worker)
       => LET r == worker'.last
          IN  /\ r.method # "GET" => r.answer = "passed"
              /\ r.method = "GET" =>
                   /\ r.answer \in {"network", "cached", "index", "offline"}
                   /\ (r.answer = "network") <=> (r.net # "fails")
                   /\ (r.answer = "cached") <=> (r.net = "fails" /\ r.url \in worker.cache)
                   /\ (r.answer = "index")
                        <=> ( /\ r.net = "fails"
                              /\ r.url \notin worker.cache
                              /\ r.destination = "document" )
                   /\ (r.answer = "offline")
                        <=> ( /\ r.net = "fails"
                              /\ r.url \notin worker.cache
                              /\ r.destination # "document" )]_vars

\* C30 witness: offline, a document that is not in the cache was asked for
\* and answered with the cached /index.html
C30_Witness ==
    /\ worker.last.name = "fetch"
    /\ worker.last.method = "GET"
    /\ worker.last.net = "fails"
    /\ worker.last.url = "/shop.html"
    /\ worker.last.answer = "index"

====
